---- MODULE Spec2Model ----
(***************************************************************************)
(* Interleaf (ardura/Interleaf): the biquad filter kernel of               *)
(* src/src/biquad_filters.rs and the per-sample pipeline of                *)
(* Interleaf::process in src/src/lib.rs.                                   *)
(*                                                                         *)
(* Numbers.  An f32 is modelled as an extended rational <<n, d>>:          *)
(*   d > 0 : the finite value n/d, in lowest terms                         *)
(*   <<1,0>>, <<-1,0>> : +infinity, -infinity                              *)
(*   <<0,0>> : NaN                                                         *)
(* with the IEEE-754 rules for division by zero, infinity and NaN.         *)
(* Rounding to 24 bits of mantissa and the sign of zero are not modelled:  *)
(* finite arithmetic is exact.  sin, cos, powf and sqrt are tabulated on   *)
(* the arguments the model's parameter values produce, rounded to one      *)
(* decimal place.                                                          *)
(***************************************************************************)
EXTENDS Integers, Sequences, FiniteSets, TLC

(***************************************************************************)
(* f32 arithmetic                                                          *)
(***************************************************************************)
Abs(n) == IF n < 0 THEN -n ELSE n

Sign(n) == IF n < 0 THEN -1 ELSE IF n > 0 THEN 1 ELSE 0

RECURSIVE Gcd(_, _)
Gcd(a, b) == IF b = 0 THEN a ELSE Gcd(b, a % b)

\* <<n, d>> in canonical form: lowest terms, d >= 0; d = 0 keeps only the sign
Norm(n, d) ==
    IF d = 0 THEN <<Sign(n), 0>>
    ELSE LET g == Gcd(Abs(n), Abs(d))
             s == Sign(d)
         IN  <<(s * n) \div g, (s * d) \div g>>

F(n) == <<n, 1>>

Rat(n, d) == Norm(n, d)

Zero == <<0, 1>>

One == <<1, 1>>

Two == <<2, 1>>

NaN == <<0, 0>>

IsNaN(x) == x = NaN

IsFinite(x) == x[2] # 0

Neg(x) == <<-x[1], x[2]>>

Add(x, y) ==
    IF x[2] = 0 /\ y[2] = 0
    THEN IF x = y THEN x ELSE NaN           \* inf + inf = inf, inf - inf = NaN
    ELSE LET g == Gcd(x[2], y[2])          \* over the least common denominator
         IN  Norm(x[1] * (y[2] \div g) + y[1] * (x[2] \div g), (x[2] \div g) * y[2])

Sub(x, y) == Add(x, Neg(y))

Mul(x, y) ==
    IF x[2] = 0 \/ y[2] = 0
    THEN Norm(x[1] * y[1], 0)               \* inf * 0 = <<0,0>> = NaN
    ELSE LET g == Gcd(Abs(x[1]), y[2])      \* cancel before multiplying
             h == Gcd(Abs(y[1]), x[2])
         IN  Norm((x[1] \div g) * (y[1] \div h), (x[2] \div h) * (y[2] \div g))

Div(x, y) ==
    IF x[2] = 0 \/ y[2] = 0 \/ y[1] = 0
    THEN LET s == IF y[1] < 0 THEN -1 ELSE 1 \* x/0 = inf, 0/0 = NaN, x/inf = 0
         IN  Norm(s * x[1] * y[2], s * x[2] * y[1])
    ELSE Mul(x, <<Sign(y[1]) * y[2], Abs(y[1])>>)

\* Rust's != on f32: NaN differs from everything, itself included
Ne(x, y) == IsNaN(x) \/ IsNaN(y) \/ x # y

\* Rust's == on f32
Eq(x, y) == ~Ne(x, y)

Gt(x, y) ==
    /\ ~IsNaN(x) /\ ~IsNaN(y)
    /\ IF x[2] = 0 /\ y[2] = 0 THEN x[1] > y[1]
       ELSE IF x[2] = 0 THEN x[1] > 0
       ELSE IF y[2] = 0 THEN y[1] < 0
       ELSE x[1] * y[2] > y[1] * x[2]

(***************************************************************************)
(* Transcendental functions, tabulated to one decimal place.  An angle is  *)
(* kept as its factor k of PI: omega = k*PI.                               *)
(***************************************************************************)
\* f32::sin of k*PI: k = 1/2 -> 1.0, k = 3/2 -> -1.0, k = 3/10 -> 0.8 (0.809),
\* k = 7/10 -> 0.8 (0.809)
Sin(k) ==
    CASE k = Rat(1, 2)  -> One
      [] k = Rat(3, 2)  -> Neg(One)
      [] k = Rat(3, 10) -> Rat(4, 5)
      [] k = Rat(7, 10) -> Rat(4, 5)
      [] k = Rat(16, 441) -> Rat(1, 10)      \* 0.114
      [] ~IsFinite(k)   -> NaN

\* f32::cos of k*PI: k = 1/2 -> 0.0, k = 3/2 -> 0.0, k = 3/10 -> 0.6 (0.588),
\* k = 7/10 -> -0.6 (-0.588)
Cos(k) ==
    CASE k = Rat(1, 2)  -> Zero
      [] k = Rat(3, 2)  -> Zero
      [] k = Rat(3, 10) -> Rat(3, 5)
      [] k = Rat(7, 10) -> Rat(-3, 5)
      [] k = Rat(16, 441) -> One             \* 0.994
      [] ~IsFinite(k)   -> NaN

\* 10.0_f32.powf(x): 10^0 = 1, 10^0.3 = 2.0 (1.995), 10^-0.3 = 0.5 (0.501);
\* 10^50 is above f32::MAX (3.4e38) and gives inf, 10^-50 is below the least
\* subnormal (1.4e-45) and gives 0
Powf10(x) ==
    CASE x = Zero        -> One
      [] x = Rat(3, 10)  -> Two
      [] x = Rat(-3, 10) -> Rat(1, 2)
      [] x = F(50)       -> <<1, 0>>
      [] x = F(-50)      -> Zero

\* f32::sqrt: sqrt 1 = 1, sqrt 2 = 1.4, sqrt 1.4 = 1.2, sqrt 0.5 = 0.7, sqrt 0.7 = 0.8,
\* sqrt 0 = 0, sqrt inf = inf
Sqrt(x) ==
    CASE x = One         -> One
      [] x = Zero        -> Zero
      [] x = <<1, 0>>    -> <<1, 0>>
      [] x = Two         -> Rat(7, 5)
      [] x = Rat(7, 5)   -> Rat(6, 5)
      [] x = Rat(1, 2)   -> Rat(7, 10)
      [] x = Rat(7, 10)  -> Rat(4, 5)

(***************************************************************************)
(* biquad_filters.rs                                                       *)
(***************************************************************************)
LEFT == 0

RIGHT == 1

FilterType ==
    {"LowPass", "HighPass", "BandPass", "Notch", "Peak", "LowShelf", "HighShelf"}

\* A = (10.0_f32.powf(peak_gain / 40.0)).sqrt()
AmpFactor(peak_gain) == Sqrt(Powf10(Div(peak_gain, F(40))))

\* The struct literal with a0 and a2 taking each other's value
Coeffs_a0_a2_swapped(b0, b1, b2, a0, a1, a2) ==
    [b0 |-> b0, b1 |-> b1, b2 |-> b2, a0 |-> a2, a1 |-> a1, a2 |-> a0]

\* The struct literal with b1 negated
Coeffs_b1_negated(b0, b1, b2, a0, a1, a2) ==
    [b0 |-> b0, b1 |-> Neg(b1), b2 |-> b2, a0 |-> a0, a1 |-> a1, a2 |-> a2]

\* The struct literal with b0 taking the value of a0
Coeffs_b0_from_a0(b0, b1, b2, a0, a1, a2) ==
    [b0 |-> a0, b1 |-> b1, b2 |-> b2, a0 |-> a0, a1 |-> a1, a2 |-> a2]

\* The struct literal closing BiquadCoefficients::new
Coeffs(b0, b1, b2, a0, a1, a2) ==
    [b0 |-> b0, b1 |-> b1, b2 |-> b2, a0 |-> a0, a1 |-> a1, a2 |-> a2]

\* BiquadCoefficients::new
BiquadCoefficients_new(biquad_type, alpha, omega, peak_gain) ==
    LET cos_omega == Cos(omega)
        sin_omega == Sin(omega)
    IN
    CASE biquad_type = "LowPass" ->
           Coeffs(Div(Sub(One, cos_omega), Two),
                  Sub(One, cos_omega),
                  Div(Sub(One, cos_omega), Two),
                  Add(One, alpha),
                  Mul(F(-2), cos_omega),
                  Sub(One, alpha))
      [] biquad_type = "HighPass" ->
           Coeffs(Div(Add(One, cos_omega), Two),
                  Neg(Add(One, cos_omega)),
                  Div(Add(One, cos_omega), Two),
                  Add(One, alpha),
                  Mul(F(-2), cos_omega),
                  Sub(One, alpha))
      [] biquad_type = "BandPass" ->
           Coeffs(Div(sin_omega, Two),
                  Zero,
                  Div(Neg(sin_omega), Two),
                  Add(One, alpha),
                  Mul(F(-2), cos_omega),
                  Sub(One, alpha))
      [] biquad_type = "Notch" ->
           Coeffs(One,
                  Mul(F(-2), cos_omega),
                  One,
                  Add(One, alpha),
                  Mul(F(-2), cos_omega),
                  Sub(One, alpha))
      [] biquad_type = "Peak" ->
           LET A == AmpFactor(peak_gain) IN
           Coeffs(Add(One, Mul(alpha, A)),
                  Mul(F(-2), cos_omega),
                  Sub(One, Mul(alpha, A)),
                  Add(One, Div(alpha, A)),
                  Mul(F(-2), cos_omega),
                  Sub(One, Div(alpha, A)))
      [] biquad_type = "LowShelf" ->
           LET A == AmpFactor(peak_gain)
               sqrt_a_2_alpha == Mul(Mul(Two, Sqrt(A)), alpha)
               Ap1 == Add(A, One)
               Am1 == Sub(A, One)
           IN
           Coeffs(Mul(A, Add(Sub(Ap1, Mul(Am1, cos_omega)), sqrt_a_2_alpha)),
                  Mul(Mul(Two, A), Sub(Am1, Mul(Ap1, cos_omega))),
                  Mul(A, Sub(Sub(Ap1, Mul(Am1, cos_omega)), sqrt_a_2_alpha)),
                  Add(Add(Ap1, Mul(Am1, cos_omega)), sqrt_a_2_alpha),
                  Mul(F(-2), Add(Am1, Mul(Ap1, cos_omega))),
                  Sub(Add(Ap1, Mul(Am1, cos_omega)), sqrt_a_2_alpha))
      [] biquad_type = "HighShelf" ->
           LET A == AmpFactor(peak_gain)
               sqrt_a_2_alpha == Mul(Mul(Two, Sqrt(A)), alpha)
               Ap1 == Add(A, One)
               Am1 == Sub(A, One)
           IN
           Coeffs(Mul(A, Add(Add(Ap1, Mul(Am1, cos_omega)), sqrt_a_2_alpha)),
                  Mul(Mul(F(-2), A), Add(Am1, Mul(Ap1, cos_omega))),
                  Mul(A, Sub(Add(Ap1, Mul(Am1, cos_omega)), sqrt_a_2_alpha)),
                  Add(Sub(Ap1, Mul(Am1, cos_omega)), sqrt_a_2_alpha),
                  Mul(Two, Sub(Am1, Mul(Ap1, cos_omega))),
                  Sub(Sub(Ap1, Mul(Am1, cos_omega)), sqrt_a_2_alpha))

\* omega = 2.0 * PI * center_freq / sample_rate, as a factor of PI
Omega(center_freq, sample_rate) == Div(Mul(Two, center_freq), sample_rate)

\* alpha = omega.sin() / (2.0 * q_factor)
Alpha(omega, q_factor) == Div(Sin(omega), Mul(Two, q_factor))

ZeroHistory == [i \in 0..1 |-> [c \in {LEFT, RIGHT} |-> Zero]]

\* Biquad::new
Biquad_new(sample_rate, center_freq, gain_db, q_factor, biquad_type) ==
    LET omega == Omega(center_freq, sample_rate)
        alpha == Alpha(omega, q_factor)
    IN  [biquad_type    |-> biquad_type,
         sample_rate    |-> sample_rate,
         center_freq    |-> center_freq,
         gain_db        |-> gain_db,
         q_factor       |-> q_factor,
         input_history  |-> ZeroHistory,
         output_history |-> ZeroHistory,
         coeffs         |-> BiquadCoefficients_new(biquad_type, alpha, omega, gain_db)]

\* Biquad::update without its recalc flag: the coefficients are recomputed on
\* every call
Biquad_update_always(self, sample_rate, center_freq, gain_db, q_factor) ==
    LET omega == Omega(center_freq, sample_rate)
        alpha == Alpha(omega, q_factor)
    IN  [self EXCEPT !.sample_rate = sample_rate,
                     !.center_freq = center_freq,
                     !.gain_db = gain_db,
                     !.q_factor = q_factor,
                     !.coeffs = BiquadCoefficients_new(self.biquad_type, alpha, omega, gain_db)]

\* Biquad::update that starts from cleared history whenever it recomputes the
\* coefficients
Biquad_update_clearing(self, sample_rate, center_freq, gain_db, q_factor) ==
    IF \/ Ne(self.sample_rate, sample_rate)
       \/ Ne(self.center_freq, center_freq)
       \/ Ne(self.gain_db, gain_db)
       \/ Ne(self.q_factor, q_factor)
    THEN Biquad_new(sample_rate, center_freq, gain_db, q_factor, self.biquad_type)
    ELSE self

\* Biquad::update with its four tests chained by else: only the first parameter
\* that differs is stored
Biquad_update_else_if(self, sample_rate, center_freq, gain_db, q_factor) ==
    LET s1 == IF Ne(self.sample_rate, sample_rate)
                 THEN [self EXCEPT !.sample_rate = sample_rate]
              ELSE IF Ne(self.center_freq, center_freq)
                 THEN [self EXCEPT !.center_freq = center_freq]
              ELSE IF Ne(self.gain_db, gain_db)
                 THEN [self EXCEPT !.gain_db = gain_db]
              ELSE IF Ne(self.q_factor, q_factor)
                 THEN [self EXCEPT !.q_factor = q_factor]
              ELSE self
    IN  IF s1 # self
        THEN LET omega == Omega(center_freq, sample_rate)
                 alpha == Alpha(omega, q_factor)
             IN  [s1 EXCEPT !.coeffs =
                     BiquadCoefficients_new(s1.biquad_type, alpha, omega, s1.gain_db)]
        ELSE s1

\* Biquad::update: the four comparisons each store the passed value, and one
\* difference is enough to recompute the coefficients from the passed values
Biquad_update(self, sample_rate, center_freq, gain_db, q_factor) ==
    LET recalc == \/ Ne(self.sample_rate, sample_rate)
                  \/ Ne(self.center_freq, center_freq)
                  \/ Ne(self.gain_db, gain_db)
                  \/ Ne(self.q_factor, q_factor)
        s1 == IF Ne(self.sample_rate, sample_rate)
              THEN [self EXCEPT !.sample_rate = sample_rate] ELSE self
        s2 == IF Ne(s1.center_freq, center_freq)
              THEN [s1 EXCEPT !.center_freq = center_freq] ELSE s1
        s3 == IF Ne(s2.gain_db, gain_db)
              THEN [s2 EXCEPT !.gain_db = gain_db] ELSE s2
        s4 == IF Ne(s3.q_factor, q_factor)
              THEN [s3 EXCEPT !.q_factor = q_factor] ELSE s3
    IN  IF recalc
        THEN LET omega == Omega(center_freq, sample_rate)
                 alpha == Alpha(omega, q_factor)
             IN  [s4 EXCEPT !.coeffs =
                     BiquadCoefficients_new(s4.biquad_type, alpha, omega, s4.gain_db)]
        ELSE s4

\* The output with the two stored inputs taken in each other's place
ChannelOutput_swapped(self, c, input) ==
    Sub(Sub(Add(Add(Mul(Div(self.coeffs.b0, self.coeffs.a0), input),
                    Mul(Div(self.coeffs.b1, self.coeffs.a0), self.input_history[1][c])),
                Mul(Div(self.coeffs.b2, self.coeffs.a0), self.input_history[0][c])),
            Mul(Div(self.coeffs.a1, self.coeffs.a0), self.output_history[0][c])),
        Mul(Div(self.coeffs.a2, self.coeffs.a0), self.output_history[1][c]))

\* The output with b0/a0 added to the input instead of multiplying it
ChannelOutput_offset(self, c, input) ==
    Sub(Sub(Add(Add(Add(Div(self.coeffs.b0, self.coeffs.a0), input),
                    Mul(Div(self.coeffs.b1, self.coeffs.a0), self.input_history[0][c])),
                Mul(Div(self.coeffs.b2, self.coeffs.a0), self.input_history[1][c])),
            Mul(Div(self.coeffs.a1, self.coeffs.a0), self.output_history[0][c])),
        Mul(Div(self.coeffs.a2, self.coeffs.a0), self.output_history[1][c]))

\* The output with the x[n-1] term read from the other channel's history
ChannelOutput_crossed(self, c, input) ==
    Sub(Sub(Add(Add(Mul(Div(self.coeffs.b0, self.coeffs.a0), input),
                    Mul(Div(self.coeffs.b1, self.coeffs.a0), self.input_history[0][1 - c])),
                Mul(Div(self.coeffs.b2, self.coeffs.a0), self.input_history[1][c])),
            Mul(Div(self.coeffs.a1, self.coeffs.a0), self.output_history[0][c])),
        Mul(Div(self.coeffs.a2, self.coeffs.a0), self.output_history[1][c]))

\* The output with the a1 term added instead of subtracted
ChannelOutput_feedback_sign(self, c, input) ==
    Sub(Add(Add(Add(Mul(Div(self.coeffs.b0, self.coeffs.a0), input),
                    Mul(Div(self.coeffs.b1, self.coeffs.a0), self.input_history[0][c])),
                Mul(Div(self.coeffs.b2, self.coeffs.a0), self.input_history[1][c])),
            Mul(Div(self.coeffs.a1, self.coeffs.a0), self.output_history[0][c])),
        Mul(Div(self.coeffs.a2, self.coeffs.a0), self.output_history[1][c]))

\* One channel of Biquad::process_sample: the output of Direct Form I
ChannelOutput(self, c, input) ==
    Sub(Sub(Add(Add(Mul(Div(self.coeffs.b0, self.coeffs.a0), input),
                    Mul(Div(self.coeffs.b1, self.coeffs.a0), self.input_history[0][c])),
                Mul(Div(self.coeffs.b2, self.coeffs.a0), self.input_history[1][c])),
            Mul(Div(self.coeffs.a1, self.coeffs.a0), self.output_history[0][c])),
        Mul(Div(self.coeffs.a2, self.coeffs.a0), self.output_history[1][c]))

\* Biquad::process_sample with the two history assignments in the other order:
\* [0] is overwritten before it is copied to [1]
Biquad_process_sample_overwrite(self, input_l, input_r) ==
    LET output_l == ChannelOutput(self, LEFT, input_l)
        output_r == ChannelOutput(self, RIGHT, input_r)
        in  == [c \in {LEFT, RIGHT} |-> IF c = LEFT THEN input_l ELSE input_r]
        out == [c \in {LEFT, RIGHT} |-> IF c = LEFT THEN output_l ELSE output_r]
    IN  [self |-> [self EXCEPT
                     !.input_history  = [i \in 0..1 |-> in],
                     !.output_history = [i \in 0..1 |-> out]],
         out  |-> <<output_l, output_r>>]

\* Biquad::process_sample: the filter after the call and the returned pair
Biquad_process_sample(self, input_l, input_r) ==
    LET output_l == ChannelOutput(self, LEFT, input_l)
        output_r == ChannelOutput(self, RIGHT, input_r)
        in  == [c \in {LEFT, RIGHT} |-> IF c = LEFT THEN input_l ELSE input_r]
        out == [c \in {LEFT, RIGHT} |-> IF c = LEFT THEN output_l ELSE output_r]
    IN  [self |-> [self EXCEPT
                     !.input_history  = [i \in 0..1 |->
                          IF i = 0 THEN in ELSE self.input_history[0]],
                     !.output_history = [i \in 0..1 |->
                          IF i = 0 THEN out ELSE self.output_history[0]]],
         out  |-> <<output_l, output_r>>]

\* Biquad::set_type (called in lib.rs:749, not in biquad_filters.rs): stores the
\* type; the coefficients follow at the next recomputing update
Biquad_set_type(self, biquad_type) == [self EXCEPT !.biquad_type = biquad_type]

(***************************************************************************)
(* InterleavedBiquad (used by lib.rs, defined outside src/): N slots, each *)
(* a Biquad with its own history and the same type, parameters and         *)
(* coefficients, and the index of the active slot.                         *)
(***************************************************************************)
\* InterleavedBiquad::new (lib.rs:170)
InterleavedBiquad_new(sample_rate, center_freq, gain_db, q_factor, biquad_type, interleave) ==
    [interleaves   |-> interleave,
     current_index |-> 0,
     biquads       |-> [i \in 1..interleave |->
                           Biquad_new(sample_rate, center_freq, gain_db, q_factor, biquad_type)]]

\* A slot added by set_interleave: the configuration of the others, no history
FreshSlot(self) ==
    [self.biquads[1] EXCEPT !.input_history = ZeroHistory, !.output_history = ZeroHistory]

\* set_interleave that builds every slot anew
InterleavedBiquad_set_interleave_rebuild(self, n, index) ==
    [interleaves   |-> n,
     current_index |-> index,
     biquads       |-> [i \in 1..n |-> FreshSlot(self)]]

\* set_interleave that leaves the active index as it was
InterleavedBiquad_set_interleave_keep(self, n, index) ==
    [interleaves   |-> n,
     current_index |-> self.current_index,
     biquads       |-> [i \in 1..n |->
                           IF i <= self.interleaves THEN self.biquads[i] ELSE FreshSlot(self)]]

\* InterleavedBiquad::set_interleave (lib.rs:740): truncates or extends the slots;
\* index is the active index after the call, which the caller of this operator
\* draws from 0..n-1 and which is the old one whenever that is still in range
InterleavedBiquad_set_interleave(self, n, index) ==
    [interleaves   |-> n,
     current_index |-> index,
     biquads       |-> [i \in 1..n |->
                           IF i <= self.interleaves THEN self.biquads[i] ELSE FreshSlot(self)]]

\* InterleavedBiquad::set_type (lib.rs:744)
InterleavedBiquad_set_type(self, biquad_type) ==
    [self EXCEPT !.biquads = [i \in 1..self.interleaves |->
                                 Biquad_set_type(self.biquads[i], biquad_type)]]

\* InterleavedBiquad::update (lib.rs:757): Biquad::update on every slot
InterleavedBiquad_update(self, sample_rate, center_freq, gain_db, q_factor) ==
    [self EXCEPT !.biquads = [i \in 1..self.interleaves |->
        Biquad_update(self.biquads[i], sample_rate, center_freq, gain_db, q_factor)]]

\* process_sample that runs the sample through every slot
InterleavedBiquad_process_sample_every_slot(self, input_l, input_r) ==
    [self |-> [self EXCEPT !.biquads = [i \in 1..self.interleaves |->
                   Biquad_process_sample(self.biquads[i], input_l, input_r).self]],
     out  |-> Biquad_process_sample(self.biquads[self.current_index + 1], input_l, input_r).out]

\* InterleavedBiquad::process_sample (lib.rs:797): the active slot filters
InterleavedBiquad_process_sample(self, input_l, input_r) ==
    LET res == Biquad_process_sample(self.biquads[self.current_index + 1], input_l, input_r)
    IN  [self |-> [self EXCEPT !.biquads[self.current_index + 1] = res.self],
         out  |-> res.out]

\* increment_index that wraps at the capacity of 10 slots, not at the depth
InterleavedBiquad_increment_index_capacity(self) ==
    [self EXCEPT !.current_index = (self.current_index + 1) % 10]

\* increment_index that advances by two slots
InterleavedBiquad_increment_index_twice(self) ==
    [self EXCEPT !.current_index = (self.current_index + 2) % self.interleaves]

\* increment_index that leaves the active slot where it is
InterleavedBiquad_increment_index_stay(self) == self

\* InterleavedBiquad::increment_index (lib.rs:808)
InterleavedBiquad_increment_index(self) ==
    [self EXCEPT !.current_index = (self.current_index + 1) % self.interleaves]

(***************************************************************************)
(* lib.rs: one iteration of the sample loop of Interleaf::process          *)
(***************************************************************************)
NumBands == 5

\* nih_plug util::gain_to_db on the gains of the model: 20*log10(gain), to one
\* decimal place (6.02 -> 6.0)
Util_gain_to_db(gain) ==
    CASE gain = One       -> Zero
      [] gain = Two       -> F(6)
      [] gain = Rat(1, 2) -> F(-6)

\* nih_plug util::db_to_gain: 10^(dbs/20), to one decimal place (1.995 -> 2.0)
Util_db_to_gain(dbs) ==
    CASE dbs = Zero  -> One
      [] dbs = F(6)  -> Two
      [] dbs = F(-6) -> Rat(1, 2)

\* EQ of Interleaf::default
EQ_default ==
    [non_interleave_bands |-> [b \in 1..NumBands |->
         Biquad_new(F(44100), F(800), Zero, Rat(707, 1000), "Peak")],
     interleave_bands |-> [b \in 1..NumBands |->
         InterleavedBiquad_new(F(44100), F(800), Zero, Rat(707, 1000), "Peak", 2)]]

\* lib.rs:717, 731-732: in_l *= util::db_to_gain(gain), in_r likewise
InputGain(in, input_gain) ==
    LET gain == Util_gain_to_db(input_gain)
    IN  <<Mul(in[1], Util_db_to_gain(gain)), Mul(in[2], Util_db_to_gain(gain))>>

\* lib.rs:737-753: set_interleave on the five interleaved bands, then set_type on
\* all ten filters.  index is the active index a band takes when its own no
\* longer fits the depth.
SetUp(eq, p, index) ==
    [non_interleave_bands |-> [b \in 1..NumBands |->
         Biquad_set_type(eq.non_interleave_bands[b], p.bands[b].type)],
     interleave_bands |-> [b \in 1..NumBands |->
         LET f == eq.interleave_bands[b]
             g == InterleavedBiquad_set_interleave(f, p.interleaves,
                     IF f.current_index < p.interleaves THEN f.current_index ELSE index)
         IN  InterleavedBiquad_set_type(g, p.bands[b].type)]]

\* The arguments of an update call taken from the band after the one updated
UpdateArgs_next_band(p, sr, b) ==
    <<sr, p.bands[(b % NumBands) + 1].freq, p.bands[(b % NumBands) + 1].gain,
      p.bands[(b % NumBands) + 1].res>>

\* lib.rs:758-762, 818-822: the arguments of the update call on band b
UpdateArgs(p, sr, b) == <<sr, p.bands[b].freq, p.bands[b].gain, p.bands[b].res>>

\* lib.rs:757-786: the update call on band b of the interleaved bank
UpdateInterleaved(eq, p, sr, b) ==
    [eq EXCEPT !.interleave_bands[b] =
        InterleavedBiquad_update(eq.interleave_bands[b], UpdateArgs(p, sr, b)[1],
            UpdateArgs(p, sr, b)[2], UpdateArgs(p, sr, b)[3], UpdateArgs(p, sr, b)[4])]

\* The update call on band b made on both banks
UpdatePlain_both(eq, p, sr, b) ==
    [eq EXCEPT !.non_interleave_bands[b] =
                   Biquad_update(eq.non_interleave_bands[b], UpdateArgs(p, sr, b)[1],
                       UpdateArgs(p, sr, b)[2], UpdateArgs(p, sr, b)[3], UpdateArgs(p, sr, b)[4]),
               !.interleave_bands[b] =
                   InterleavedBiquad_update(eq.interleave_bands[b], UpdateArgs(p, sr, b)[1],
                       UpdateArgs(p, sr, b)[2], UpdateArgs(p, sr, b)[3], UpdateArgs(p, sr, b)[4])]

\* lib.rs:817-846: the update call on band b of the plain bank
UpdatePlain(eq, p, sr, b) ==
    [eq EXCEPT !.non_interleave_bands[b] =
        Biquad_update(eq.non_interleave_bands[b], UpdateArgs(p, sr, b)[1],
            UpdateArgs(p, sr, b)[2], UpdateArgs(p, sr, b)[3], UpdateArgs(p, sr, b)[4])]

\* An update call of the current iteration: the bank, the band and the arguments
UpdateEntry(bank, b, args) == [bank |-> bank, band |-> b, args |-> args]

\* lib.rs:793-807 and 853-867: what one pass hands to process_sample.  Pass 0
\* takes the loop's input while temp_l still holds the -2.0 it was set to.
PassInput(i, temp, in) ==
    IF i = 0 /\ Eq(temp[1], F(-2)) THEN in ELSE temp

PassEntry(band, i, slot, x, y) ==
    [band |-> band, pass |-> i, slot |-> slot, in |-> x, out |-> y]

\* Mutex::lock that returns without taking the mutex
Mutex_lock_untaken(holder, thread) == holder

\* lib.rs:726: Mutex::lock returns once the mutex is free and makes the caller
\* its holder
Mutex_lock(holder, thread) == thread

\* a guard whose drop leaves the mutex held
MutexGuard_drop_held(holder) == holder

\* lib.rs:919: the MutexGuard eq is dropped at the end of the iteration
MutexGuard_drop(holder) == "free"

\* MixChannel with the two gains of the cross-fade exchanged
MixChannel_swapped(in, processed, dry_wet, output_gain) ==
    LET wet_gain == Sub(One, dry_wet)
        dry_gain == dry_wet
    IN  Mul(Add(Mul(in, dry_gain), Mul(processed, wet_gain)), output_gain)

\* lib.rs:876-884: dry/wet mix, then output gain, on one channel
MixChannel(in, processed, dry_wet, output_gain) ==
    LET wet_gain == dry_wet
        dry_gain == Sub(One, dry_wet)
    IN  Mul(Add(Mul(in, dry_gain), Mul(processed, wet_gain)), output_gain)

(***************************************************************************)
(* The values the callers pass                                             *)
(***************************************************************************)
\* <<sample_rate, center_freq, gain_db, q_factor>>.  The first is the base; each
\* of the other four differs from it in one parameter.  At 24000 Hz a band at
\* 18000 Hz lies above Nyquist: sin(omega) = -1, and resonance 0.5 gives
\* alpha = -1, a0 = 0.
ParamSets ==
    { <<F(24000), F(6000),  Zero,  Rat(1, 2)>>,
      <<F(40000), F(6000),  Zero,  Rat(1, 2)>>,
      <<F(24000), F(18000), Zero,  Rat(1, 2)>>,
      <<F(24000), F(6000),  F(12), Rat(1, 2)>>,
      <<F(24000), F(6000),  Zero,  One>> }

TypeChoices == {"LowPass", "Peak", "HighShelf"}

\* <<sample_rate, center_freq>> handed to the coefficient solver: omega is PI/2,
\* 3*PI/10 and 7*PI/10 (cosine 0, positive, negative); the last pair lies above
\* Nyquist
SolverRates ==
    { <<F(24000), F(6000)>>, <<F(40000), F(6000)>>, <<F(40000), F(14000)>>,
      <<F(24000), F(18000)>> }

\* gain_db handed to the solver: none, the plug-in's +-12 dB, and two whose
\* amplitude factor leaves the range of f32
SolverGains == {Zero, F(12), F(-12), F(2000), F(-2000)}

\* q_factor handed to the solver
SolverResonances == {Rat(1, 2), Rat(1, 10)}

\* The types with a gain: at 0 dB they are meant to pass the signal unchanged
GainTypes == {"Peak", "LowShelf", "HighShelf"}

\* <<sample_rate, center_freq, gain_db, q_factor>> of a Biquad built to pass
\* samples: 0 dB at three valid frequencies and above Nyquist (a0 = 0), and 12 dB
GainParamSets ==
    { <<F(24000), F(6000),  Zero,  Rat(1, 2)>>,
      <<F(40000), F(6000),  Zero,  Rat(1, 2)>>,
      <<F(40000), F(14000), Zero,  Rat(1, 10)>>,
      <<F(24000), F(18000), Zero,  Rat(1, 2)>>,
      <<F(24000), F(6000),  F(12), Rat(1, 2)>> }

SolverParamSets ==
    { <<r[1], r[2], g, q>> : r \in SolverRates, g \in SolverGains, q \in SolverResonances }

SamplePairs == { <<Zero, Zero>>, <<One, F(-2)>>, <<F(-2), Zero>> }

\* Sample pairs fed to it: those of SamplePairs and one with an infinite value
GainSamplePairs == SamplePairs \cup { <<<<1, 0>>, One>> }

\* The base, the band above Nyquist and the other sample rate
InterleavedParamSets ==
    { <<F(24000), F(6000),  Zero,  Rat(1, 2)>>,
      <<F(40000), F(6000),  Zero,  Rat(1, 2)>>,
      <<F(24000), F(18000), Zero,  Rat(1, 2)>> }

\* Interleave depths passed to set_interleave, of the 1..10 of lib.rs:233
InterleaveChoices == {1, 2, 3, 10}

\* One band's parameters as the host holds them (lib.rs:240-407)
Band(freq, gain, res, type) == [freq |-> freq, gain |-> gain, res |-> res, type |-> type]

\* The five bands' parameters the sample loop reads.  The first has every band
\* shaping the signal, the second has a band with a0 = 0.
Patches ==
    { <<Band(F(6000), Zero, Rat(1, 2), "Notch"), Band(F(6000), Zero, One, "LowPass"),
        Band(F(6000), Zero, Rat(1, 2), "BandPass"), Band(F(6000), Zero, Rat(1, 2), "HighPass"),
        Band(F(6000), Zero, Rat(1, 2), "LowPass")>>,
      <<Band(F(6000), Zero, Rat(1, 2), "LowPass"), Band(F(18000), Zero, Rat(1, 2), "LowPass"),
        Band(F(6000), Zero, Rat(1, 2), "Peak"), Band(F(6000), Zero, Rat(1, 2), "Peak"),
        Band(F(6000), Zero, Rat(1, 2), "Peak")>> }

PipeSampleRates == {F(24000)}
PipeInterleaves == {1, 2}
PipeOversampling == {0, 1}
PipeGains == {One, Two}
PipeDryWet == {Zero, Rat(1, 2), One}
PipeSamples == { <<Zero, Zero>>, <<F(-2), One>> }

\* The bound on the iterations of the sample loop in one behaviour
MaxFrames == 2

\* The bound on the calls of one behaviour
MaxCalls == 5

(***************************************************************************)
(* State                                                                   *)
(***************************************************************************)
VARIABLES
    target,     \* what a behaviour drives: "Biquad", "InterleavedBiquad" or "Interleaf"
    bq,         \* the Biquad
    ib,         \* the InterleavedBiquad
    call,       \* the last call made: its name, arguments and result
    pending,    \* a set_type has been made and no update since
    silent,     \* every process_sample input so far was 0.0 on both channels
    regular,    \* every process_sample so far ran on finite coefficients, a0 # 0
    ncalls,     \* the number of calls so far
    start,      \* the active index when the last set_interleave returned
    count,      \* the increment_index calls since the last set_interleave
    eq,         \* Interleaf.equalizer: the EQ behind the mutex
    mutex,      \* who holds the equalizer's mutex: "free" or "audio"
    pc,         \* where the sample loop of process stands
    io,         \* the locals of the current iteration of the sample loop
    log,        \* the process_sample calls of the current iteration, in order
    nframes,    \* the iterations completed
    event,      \* the last lifecycle call the host made: "none", "process", "reset"
    lastpass    \* per band, the slot, depth and iteration of its latest interleaved pass

filt == <<target, bq, ib, call, pending, silent, regular, ncalls, start, count>>
pipe == <<eq, mutex, pc, io, log, nframes, event, lastpass>>
vars == <<target, bq, ib, call, pending, silent, regular, ncalls, start, count,
          eq, mutex, pc, io, log, nframes, event, lastpass>>

Call(op, args, out, changed, after_set_type) ==
    [op |-> op, args |-> args, out |-> out, changed |-> changed,
     after_set_type |-> after_set_type]

StoredParams(self) ==
    <<self.sample_rate, self.center_freq, self.gain_db, self.q_factor>>

RegularCoeffs(c) ==
    /\ \A k \in {"b0", "b1", "b2", "a0", "a1", "a2"} : IsFinite(c[k])
    /\ c.a0 # Zero

ActiveSlot(self) == self.biquads[self.current_index + 1]

\* lib.rs:711-715: the locals of an iteration before anything is read; band and
\* pass are the positions of the two loops of the cascade
IoFresh ==
    [in |-> <<Zero, Zero>>, input_gain |-> One, output_gain |-> One, dry_wet |-> One,
     gained |-> <<Zero, Zero>>, sr |-> Zero, interleave |-> 1, oversampling |-> 0,
     bands |-> <<>>, temp |-> <<Zero, Zero>>, band |-> 1, pass |-> 0,
     processed |-> <<Zero, Zero>>, out |-> <<Zero, Zero>>, updates |-> <<>>]

\* No interleaved pass of the band yet
NoPass == [slot |-> 0, depth |-> 0, frame |-> -1]

\* The filters as Interleaf::default builds them (lib.rs:164, lib.rs:170)
Constructed ==
    /\ bq = Biquad_new(F(44100), F(800), Zero, Rat(707, 1000), "Peak")
    /\ ib = InterleavedBiquad_new(F(44100), F(800), Zero, Rat(707, 1000), "Peak", 2)
    /\ call = Call("new", <<>>, <<>>, FALSE, FALSE)
    /\ pending = FALSE
    /\ silent = TRUE
    /\ regular = TRUE
    /\ ncalls = 0
    /\ start = 0
    /\ count = 0
    /\ eq = EQ_default
    /\ mutex = "free"
    /\ pc = "idle"
    /\ io = IoFresh
    /\ log = <<>>
    /\ nframes = 0
    /\ event = "none"
    /\ lastpass = [b \in 1..NumBands |-> NoPass]

Init ==
    /\ target \in {"Biquad", "InterleavedBiquad"}
    /\ Constructed

Update ==
    \E p \in ParamSets :
        /\ target = "Biquad"
        /\ ncalls < MaxCalls
        /\ bq' = Biquad_update(bq, p[1], p[2], p[3], p[4])
        /\ call' = Call("update", p, <<>>, p # StoredParams(bq), pending)
        /\ pending' = FALSE
        /\ ncalls' = ncalls + 1
        /\ UNCHANGED <<target, ib, silent, regular, start, count>>
        /\ UNCHANGED pipe

SetType ==
    \E t \in TypeChoices :
        /\ target = "Biquad"
        /\ ncalls < MaxCalls
        /\ bq' = Biquad_set_type(bq, t)
        /\ call' = Call("set_type", <<t>>, <<>>, FALSE, FALSE)
        /\ pending' = TRUE
        /\ ncalls' = ncalls + 1
        /\ UNCHANGED <<target, ib, silent, regular, start, count>>
        /\ UNCHANGED pipe

ProcessSample ==
    \E in \in SamplePairs :
        LET res == Biquad_process_sample(bq, in[1], in[2]) IN
        /\ target = "Biquad"
        /\ ncalls < MaxCalls
        /\ bq' = res.self
        /\ call' = Call("process_sample", in, res.out, FALSE, FALSE)
        /\ silent' = (silent /\ in = <<Zero, Zero>>)
        /\ regular' = (regular /\ RegularCoeffs(bq.coeffs))
        /\ ncalls' = ncalls + 1
        /\ UNCHANGED <<target, ib, pending, start, count>>
        /\ UNCHANGED pipe

InterleavedUpdate ==
    \E p \in InterleavedParamSets :
        /\ target = "InterleavedBiquad"
        /\ ncalls < MaxCalls
        /\ ib' = InterleavedBiquad_update(ib, p[1], p[2], p[3], p[4])
        /\ call' = Call("update", p, <<>>, p # StoredParams(ActiveSlot(ib)), pending)
        /\ pending' = FALSE
        /\ ncalls' = ncalls + 1
        /\ UNCHANGED <<target, bq, silent, regular, start, count>>
        /\ UNCHANGED pipe

InterleavedSetType ==
    \E t \in TypeChoices :
        /\ target = "InterleavedBiquad"
        /\ ncalls < MaxCalls
        /\ ib' = InterleavedBiquad_set_type(ib, t)
        /\ call' = Call("set_type", <<t>>, <<>>, FALSE, FALSE)
        /\ pending' = TRUE
        /\ ncalls' = ncalls + 1
        /\ UNCHANGED <<target, bq, silent, regular, start, count>>
        /\ UNCHANGED pipe

InterleavedProcessSample ==
    \E in \in SamplePairs :
        LET res == InterleavedBiquad_process_sample(ib, in[1], in[2]) IN
        /\ target = "InterleavedBiquad"
        /\ ncalls < MaxCalls
        /\ ib' = res.self
        /\ call' = Call("process_sample", in, res.out, FALSE, FALSE)
        /\ silent' = (silent /\ in = <<Zero, Zero>>)
        /\ regular' = (regular /\ RegularCoeffs(ActiveSlot(ib).coeffs))
        /\ ncalls' = ncalls + 1
        /\ UNCHANGED <<target, bq, pending, start, count>>
        /\ UNCHANGED pipe

SetInterleave ==
    \E n \in InterleaveChoices :
        \E index \in 0..(n - 1) :
            /\ target = "InterleavedBiquad"
            /\ ncalls < MaxCalls
            /\ ib.current_index < n => index = ib.current_index
            /\ ib' = InterleavedBiquad_set_interleave(ib, n, index)
            /\ call' = Call("set_interleave", <<n>>, <<ib.current_index>>,
                             n # ib.interleaves, FALSE)
            /\ ncalls' = ncalls + 1
            /\ UNCHANGED <<target, bq, pending, silent, regular, start, count>>
            /\ UNCHANGED pipe

IncrementIndex ==
    /\ target = "InterleavedBiquad"
    /\ ncalls < MaxCalls
    /\ ib' = InterleavedBiquad_increment_index(ib)
    /\ call' = Call("increment_index", <<>>, <<>>, FALSE, FALSE)
    /\ ncalls' = ncalls + 1
    /\ UNCHANGED <<target, bq, pending, silent, regular, start, count>>
    /\ UNCHANGED pipe

Next ==
    \/ Update
    \/ SetType
    \/ ProcessSample
    \/ InterleavedUpdate
    \/ InterleavedSetType
    \/ InterleavedProcessSample
    \/ SetInterleave
    \/ IncrementIndex

Spec == Init /\ [][Next]_vars

(***************************************************************************)
(* The rotation of the active slot alone: set_interleave over every depth  *)
(* of lib.rs:233-234 and increment_index, counted since the last           *)
(* set_interleave; a run of increments stops at the depth.                 *)
(***************************************************************************)
MaxInterleave == 10

CycleInit == Init /\ target = "InterleavedBiquad"

CycleSetInterleave ==
    \E n \in 1..MaxInterleave :
        \E index \in 0..(n - 1) :
            /\ ib.current_index < n => index = ib.current_index
            /\ ib' = InterleavedBiquad_set_interleave(ib, n, index)
            /\ start' = index
            /\ count' = 0
            /\ UNCHANGED <<target, bq, call, pending, silent, regular, ncalls>>
            /\ UNCHANGED pipe

CycleIncrementIndex ==
    /\ count < ib.interleaves
    /\ ib' = InterleavedBiquad_increment_index(ib)
    /\ count' = count + 1
    /\ UNCHANGED <<target, bq, call, pending, silent, regular, ncalls, start>>
    /\ UNCHANGED pipe

CycleNext == CycleSetInterleave \/ CycleIncrementIndex

SpecCycle == CycleInit /\ [][CycleNext]_vars

(***************************************************************************)
(* The coefficient solver alone: a Biquad of any of the seven types is     *)
(* built by Biquad::new or brought to other parameters by Biquad::update,  *)
(* both of which end in BiquadCoefficients::new.                           *)
(***************************************************************************)
SolverInit == target = "BiquadCoefficients" /\ Constructed

SolverNew ==
    \E p \in SolverParamSets :
        \E t \in FilterType :
            /\ target = "BiquadCoefficients"
            /\ bq' = Biquad_new(p[1], p[2], p[3], p[4], t)
            /\ call' = Call("new", p, <<>>, TRUE, FALSE)
            /\ UNCHANGED <<target, ib, pending, silent, regular, ncalls, start, count>>
            /\ UNCHANGED pipe

SolverUpdate ==
    \E p \in SolverParamSets :
        /\ target = "BiquadCoefficients"
        /\ bq' = Biquad_update(bq, p[1], p[2], p[3], p[4])
        /\ call' = Call("update", p, <<>>, p # StoredParams(bq), FALSE)
        /\ UNCHANGED <<target, ib, pending, silent, regular, ncalls, start, count>>
        /\ UNCHANGED pipe

SolverNext == SolverNew \/ SolverUpdate

SpecSolver == SolverInit /\ [][SolverNext]_vars

(***************************************************************************)
(* A Biquad of a type with a gain, from Biquad::new on: built once, then   *)
(* fed samples.                                                            *)
(***************************************************************************)
GainInit == target = "GainBiquad" /\ Constructed

GainNew ==
    \E p \in GainParamSets :
        \E t \in GainTypes :
            /\ target = "GainBiquad"
            /\ ncalls = 0
            /\ call.args = <<>>
            /\ bq' = Biquad_new(p[1], p[2], p[3], p[4], t)
            /\ call' = Call("new", p, <<>>, TRUE, FALSE)
            /\ UNCHANGED <<target, ib, pending, silent, regular, ncalls, start, count>>
            /\ UNCHANGED pipe

GainProcessSample ==
    \E in \in GainSamplePairs :
        /\ target = "GainBiquad"
        /\ ncalls < MaxCalls
        /\ \E res \in {Biquad_process_sample(bq, in[1], in[2])} :
               /\ bq' = res.self
               /\ call' = Call("process_sample", in, res.out, FALSE, FALSE)
        /\ ncalls' = ncalls + 1
        /\ UNCHANGED <<target, ib, pending, silent, regular, start, count>>
        /\ UNCHANGED pipe

GainNext == GainNew \/ GainProcessSample

SpecGain == GainInit /\ [][GainNext]_vars

(***************************************************************************)
(* The sample loop of Interleaf::process on the plugin's own EQ.  The      *)
(* parameter values are read afresh in every iteration, so each iteration  *)
(* draws them: the host may have changed any of them in between.           *)
(***************************************************************************)
PipeInit ==
    /\ target = "Interleaf"
    /\ Constructed

\* lib.rs:711-723: the locals, the smoothed input gain and the sample pair.
\* output_gain and dry_wet are read here too; nothing uses them before the mix,
\* so their values are drawn there.
PipeRead ==
    \E in \in PipeSamples, input_gain \in PipeGains :
        /\ target = "Interleaf"
        /\ pc = "idle"
        /\ nframes < MaxFrames
        /\ io' = [IoFresh EXCEPT !.in = in, !.input_gain = input_gain]
        /\ log' = <<>>
        /\ pc' = "read"
        /\ event' = "process"
        /\ UNCHANGED <<eq, mutex, nframes, lastpass>>
        /\ UNCHANGED filt

\* lib.rs:726: arc_eq.lock()
PipeLock ==
    /\ target = "Interleaf"
    /\ pc = "read"
    /\ mutex = "free"
    /\ mutex' = Mutex_lock(mutex, "audio")
    /\ pc' = "locked"
    /\ UNCHANGED <<eq, io, log, nframes, event, lastpass>>
    /\ UNCHANGED filt

\* A band's active index no longer fits the depth n
Shrinks(n) == \E b \in 1..NumBands : eq.interleave_bands[b].current_index >= n

\* lib.rs:728-753: the sample rate and the parameters as they stand now, the
\* input gain, set_interleave and set_type
PipeSetUp ==
    \E sr \in PipeSampleRates, bands \in Patches,
       interleave \in PipeInterleaves, oversampling \in PipeOversampling :
        \E index \in IF Shrinks(interleave) THEN 0..(interleave - 1) ELSE {0} :
            /\ target = "Interleaf"
            /\ pc = "locked"
            /\ eq' = SetUp(eq, [bands |-> bands, interleaves |-> interleave], index)
            /\ io' = [io EXCEPT !.gained = InputGain(io.in, io.input_gain),
                                !.sr = sr, !.bands = bands,
                                !.interleave = interleave,
                                !.oversampling = oversampling]
            /\ pc' = "set"
            /\ UNCHANGED <<mutex, log, nframes, event, lastpass>>
            /\ UNCHANGED filt

\* The locals after the update call on band io.band: the call is noted in
\* updates; after the fifth, temp_l and temp_r are set (lib.rs:789-790, 849-850)
AfterUpdate(bank) ==
    LET noted == Append(io.updates, UpdateEntry(bank, io.band, UpdateArgs(io, io.sr, io.band)))
    IN  IF io.band < NumBands
        THEN [io EXCEPT !.updates = noted, !.band = io.band + 1]
        ELSE [io EXCEPT !.updates = noted, !.band = 1, !.temp = <<F(-2), F(-2)>>]

\* lib.rs:755-790: interleave >= 2.0, one of the five updates of the interleaved
\* bank, in the order of the code; temp_l and temp_r after the last
PipeInterleavedUpdate ==
    /\ target = "Interleaf"
    /\ pc = "set"
    /\ io.interleave >= 2
    /\ eq' = UpdateInterleaved(eq, io, io.sr, io.band)
    /\ io' = AfterUpdate("interleave_bands")
    /\ pc' = IF io.band < NumBands THEN "set" ELSE "updated"
    /\ UNCHANGED <<mutex, log, nframes, event, lastpass>>
    /\ UNCHANGED filt

\* lib.rs:815-850: otherwise one of the five updates of the plain bank, in the
\* order of the code; temp_l and temp_r after the last
PipeUpdate ==
    /\ target = "Interleaf"
    /\ pc = "set"
    /\ ~(io.interleave >= 2)
    /\ eq' = UpdatePlain(eq, io, io.sr, io.band)
    /\ io' = AfterUpdate("non_interleave_bands")
    /\ pc' = IF io.band < NumBands THEN "set" ELSE "updated"
    /\ UNCHANGED <<mutex, log, nframes, event, lastpass>>
    /\ UNCHANGED filt

\* lib.rs:791-813 and 851-872: the two loops move on after a pass that returned
\* out; processed_sample is assigned when a band's passes are over
Advance(out) ==
    IF io.pass < io.oversampling
    THEN [io EXCEPT !.temp = out, !.pass = io.pass + 1]
    ELSE [io EXCEPT !.temp = out, !.pass = 0, !.band = io.band + 1, !.processed = out]

AfterPass == IF io.pass = io.oversampling /\ io.band = NumBands THEN "filtered" ELSE "updated"

\* lib.rs:792-809: one pass of the interleaved bank: process_sample on the band,
\* then increment_index
PipeInterleavedPass ==
    /\ target = "Interleaf"
    /\ pc = "updated"
    /\ io.interleave >= 2
    /\ LET filter == eq.interleave_bands[io.band]
           x      == PassInput(io.pass, io.temp, io.gained)
       IN  \E res \in {InterleavedBiquad_process_sample(filter, x[1], x[2])} :
               /\ eq' = [eq EXCEPT !.interleave_bands[io.band] =
                            InterleavedBiquad_increment_index(res.self)]
               /\ io' = Advance(res.out)
               /\ log' = Append(log, PassEntry(io.band, io.pass, filter.current_index,
                                               x, res.out))
               /\ lastpass' = [lastpass EXCEPT ![io.band] =
                                   [slot |-> filter.current_index,
                                    depth |-> filter.interleaves, frame |-> nframes]]
    /\ pc' = AfterPass
    /\ UNCHANGED <<mutex, nframes, event>>
    /\ UNCHANGED filt

\* lib.rs:852-869: one pass of the plain bank: process_sample on the band
PipePass ==
    /\ target = "Interleaf"
    /\ pc = "updated"
    /\ ~(io.interleave >= 2)
    /\ LET filter == eq.non_interleave_bands[io.band]
           x      == PassInput(io.pass, io.temp, io.gained)
       IN  \E res \in {Biquad_process_sample(filter, x[1], x[2])} :
               /\ eq' = [eq EXCEPT !.non_interleave_bands[io.band] = res.self]
               /\ io' = Advance(res.out)
               /\ log' = Append(log, PassEntry(io.band, io.pass, 0, x, res.out))
    /\ pc' = AfterPass
    /\ UNCHANGED <<mutex, nframes, event, lastpass>>
    /\ UNCHANGED filt

\* lib.rs:718-719, 876-888: dry/wet mix, output gain, and the pair written back
PipeMix ==
    \E output_gain \in PipeGains, dry_wet \in PipeDryWet :
        /\ target = "Interleaf"
        /\ pc = "filtered"
        /\ io' = [io EXCEPT !.output_gain = output_gain, !.dry_wet = dry_wet,
                            !.out = <<MixChannel(io.gained[1], io.processed[1], dry_wet, output_gain),
                                      MixChannel(io.gained[2], io.processed[2], dry_wet, output_gain)>>]
        /\ pc' = "mixed"
        /\ UNCHANGED <<eq, mutex, log, nframes, event, lastpass>>
        /\ UNCHANGED filt

\* lib.rs:919: the guard and the locals go out of scope at the end of the
\* iteration
PipeUnlock ==
    /\ target = "Interleaf"
    /\ pc = "mixed"
    /\ mutex = "audio"
    /\ mutex' = MutexGuard_drop(mutex)
    /\ pc' = "idle"
    /\ nframes' = nframes + 1
    /\ io' = IoFresh
    /\ log' = <<>>
    /\ UNCHANGED <<eq, event, lastpass>>
    /\ UNCHANGED filt

\* lib.rs:936: fn reset(&mut self) {}, called by the host between two process
\* calls; its body is empty
Reset ==
    /\ target = "Interleaf"
    /\ pc = "idle"
    /\ event' = "reset"
    /\ UNCHANGED <<eq, mutex, pc, io, log, nframes, lastpass>>
    /\ UNCHANGED filt

PipeNext ==
    \/ PipeRead
    \/ PipeLock
    \/ PipeSetUp
    \/ PipeInterleavedUpdate
    \/ PipeUpdate
    \/ PipeInterleavedPass
    \/ PipePass
    \/ PipeMix
    \/ PipeUnlock
    \/ Reset

SpecPipe == PipeInit /\ [][PipeNext]_vars

(***************************************************************************)
(* Claims                                                                  *)
(***************************************************************************)
HistoryIsZero(self) ==
    self.input_history = ZeroHistory /\ self.output_history = ZeroHistory

\* The coefficients BiquadCoefficients::new gives for the stored type and the
\* parameters p = <<sample_rate, center_freq, gain_db, q_factor>>
SolvedFor(biquad_type, p) ==
    BiquadCoefficients_new(biquad_type, Alpha(Omega(p[2], p[1]), p[4]), Omega(p[2], p[1]), p[3])

\* C1: an update of the Biquad that passes the four stored values changes nothing:
\* coefficients, stored parameters, type and both histories are as before the
\* call (so also after any number of such calls in a row).
C1_UpdateUnchangedIsNoOp ==
    [][ (target = "Biquad" /\ call'.op = "update" /\ call'.args = StoredParams(bq))
            => bq' = bq ]_vars

\* C1 happens: an update passed the stored values to a Biquad whose type had been
\* set since its coefficients were computed and whose history is not zero.
C1_Witness ==
    /\ target = "Biquad"
    /\ call.op = "update" /\ ~call.changed /\ call.after_set_type
    /\ bq.coeffs # SolvedFor(bq.biquad_type, StoredParams(bq))
    /\ ~HistoryIsZero(bq)

\* C2: an update of the Biquad that passes at least one value different from the
\* stored one leaves the four stored parameters equal to the passed values and
\* the coefficients equal to BiquadCoefficients::new(type, alpha, omega, gain_db)
\* with omega = 2*PI*center_freq/sample_rate and alpha = sin(omega)/(2*q_factor)
\* of the passed values.
C2_UpdateChangedRecomputes ==
    (target = "Biquad" /\ call.op = "update" /\ call.changed)
        => /\ StoredParams(bq) = call.args
           /\ bq.coeffs = SolvedFor(bq.biquad_type, call.args)

\* C2 happens: an update changed two parameters at once, after a set_type and
\* with history in the filter.
C2_Witness ==
    /\ target = "Biquad"
    /\ call.op = "update" /\ call.changed /\ call.after_set_type
    /\ call.args = <<F(40000), F(6000), Zero, Rat(1, 2)>>
    /\ bq.biquad_type = "HighShelf"
    /\ ~HistoryIsZero(bq)

\* Direct Form I with one division: (b0*x + b1*x1 + b2*x2 - a1*y1 - a2*y2) / a0
DirectFormI(c, x, x1, x2, y1, y2) ==
    Div(Sub(Sub(Add(Add(Mul(c.b0, x), Mul(c.b1, x1)), Mul(c.b2, x2)),
                Mul(c.a1, y1)),
            Mul(c.a2, y2)),
        c.a0)

\* C3: process_sample returns on each channel
\* y = (b0*x + b1*x1 + b2*x2 - a1*y1 - a2*y2) / a0 of that channel's input and of
\* its two previous inputs and outputs stored when the call is made.  The
\* quotient is defined when the coefficients are finite and a0 is not 0, and the
\* equality is that of exact arithmetic.
C3_DirectFormI ==
    [][ (target = "Biquad" /\ call'.op = "process_sample" /\ RegularCoeffs(bq.coeffs))
            => \A c \in {LEFT, RIGHT} :
                 call'.out[c + 1] =
                    DirectFormI(bq.coeffs, call'.args[c + 1],
                                bq.input_history[0][c], bq.input_history[1][c],
                                bq.output_history[0][c], bq.output_history[1][c]) ]_vars

\* C3 happens: a third process_sample in a row ran on a recursive filter (a1 and
\* a2 not 0) whose four history entries of the left channel, as they now stand,
\* are not 0 and whose left output differs from its input.
C3_Witness ==
    /\ target = "Biquad"
    /\ call.op = "process_sample"
    /\ RegularCoeffs(bq.coeffs)
    /\ bq.coeffs.a1 # Zero /\ bq.coeffs.a2 # Zero /\ bq.coeffs.b1 # Zero
    /\ \A i \in 0..1 : /\ bq.input_history[i][LEFT] # Zero
                       /\ bq.output_history[i][LEFT] # Zero
    /\ bq.input_history[0][LEFT] # bq.input_history[1][LEFT]
    /\ call.out[1] # call.args[1]

\* C4: process_sample shifts each channel's history by one step: the new x[n-1]
\* is the input passed, the new x[n-2] the old x[n-1], the new y[n-1] the output
\* returned, the new y[n-2] the old y[n-1]; coefficients, type and stored
\* parameters are unchanged.
C4_HistoryShift ==
    [][ (target = "Biquad" /\ call'.op = "process_sample")
            => /\ \A c \in {LEFT, RIGHT} :
                    /\ bq'.input_history[0][c] = call'.args[c + 1]
                    /\ bq'.input_history[1][c] = bq.input_history[0][c]
                    /\ bq'.output_history[0][c] = call'.out[c + 1]
                    /\ bq'.output_history[1][c] = bq.output_history[0][c]
               /\ bq'.coeffs = bq.coeffs
               /\ bq'.biquad_type = bq.biquad_type
               /\ StoredParams(bq') = StoredParams(bq) ]_vars

\* C4 happens: after process_sample the two stored inputs differ and the two
\* stored outputs differ, on both channels.
C4_Witness ==
    /\ target = "Biquad"
    /\ call.op = "process_sample"
    /\ \A c \in {LEFT, RIGHT} :
          /\ bq.input_history[0][c] # bq.input_history[1][c]
          /\ bq.output_history[0][c] # bq.output_history[1][c]
          /\ bq.output_history[1][c] # Zero

AllHistoryZero ==
    /\ HistoryIsZero(bq)
    /\ \A i \in 1..ib.interleaves : HistoryIsZero(ib.biquads[i])

SilentOutput == call.op = "process_sample" => call.out = <<Zero, Zero>>

\* C5 as stated: all-zero input through the Biquad or the InterleavedBiquad, with
\* any type and parameters and any updates in between, gives all-zero output and
\* leaves every history entry at zero.
C5_SilenceAnyParameters == silent => (AllHistoryZero /\ SilentOutput)

\* C5 amended: the same, as long as every process_sample so far ran on finite
\* coefficients with a0 not 0.
C5_SilenceRegular == (silent /\ regular) => (AllHistoryZero /\ SilentOutput)

\* C5 happens: a zero pair went through a Biquad that an update had given other
\* coefficients than those it was built with.
C5_Witness ==
    /\ target = "Biquad"
    /\ silent /\ regular
    /\ call.op = "process_sample"
    /\ bq.biquad_type = "LowPass"
    /\ bq.coeffs = SolvedFor("LowPass", <<F(40000), F(6000), Zero, Rat(1, 2)>>)

\* C6: after any calls of set_interleave(n), 1 <= n <= 10, increment_index,
\* set_type, update and process_sample, the active index is in [0, N) for the
\* current N slots, also after N shrank to the index or below.
C6_IndexInRange ==
    /\ ib.current_index \in 0..(ib.interleaves - 1)
    /\ DOMAIN ib.biquads = 1..ib.interleaves

\* C6 happens: set_interleave(n) was called with n at or below the active index.
C6_Witness ==
    /\ target = "InterleavedBiquad"
    /\ call.op = "set_interleave"
    /\ call.args[1] <= call.out[1]

\* C7: for every depth d in 1..10 and every starting index, d calls of
\* increment_index with no set_interleave in between bring the active index
\* back to where it started.
C7_IncrementCycles == count = ib.interleaves => ib.current_index = start

\* C7 happens: 10 slots, a start in the middle, 10 increments made.
C7_Witness == ib.interleaves = MaxInterleave /\ start = 4 /\ count = MaxInterleave

\* C8: after set_type(t) and then the next update, the coefficients are those
\* BiquadCoefficients::new gives for type t and the stored parameters, also when
\* that update passes the four stored values.
C8_TypeTakesEffectOnUpdate ==
    (call.op = "update" /\ call.after_set_type)
        => /\ target = "Biquad" =>
                bq.coeffs = SolvedFor(bq.biquad_type, StoredParams(bq))
           /\ target = "InterleavedBiquad" =>
                \A i \in 1..ib.interleaves :
                    ib.biquads[i].coeffs =
                        SolvedFor(ib.biquads[i].biquad_type, StoredParams(ib.biquads[i]))

\* The first and the last pass of band b (1..5) in the log of an iteration
FirstPass(b) == log[(b - 1) * (io.oversampling + 1) + 1]

LastPass(b) == log[b * (io.oversampling + 1)]

\* C9: in every iteration of the sample loop the five bands run in the order
\* 0..4, band 0 receives the gained input pair, and band i+1 receives exactly
\* the final output of band i, whatever the sample values are.
C9_CascadeFeedsNextBand ==
    pc = "filtered" =>
        /\ Len(log) = NumBands * (io.oversampling + 1)
        /\ \A k \in 1..Len(log) : log[k].band = ((k - 1) \div (io.oversampling + 1)) + 1
        /\ FirstPass(1).in = io.gained
        /\ \A b \in 1..(NumBands - 1) : FirstPass(b + 1).in = LastPass(b).out

\* The incoming pair after the input gain of lib.rs:717, 731-732
GainedInput ==
    <<Mul(io.in[1], Util_db_to_gain(Util_gain_to_db(io.input_gain))),
      Mul(io.in[2], Util_db_to_gain(Util_gain_to_db(io.input_gain)))>>

Scaled(pair, gain) == <<Mul(pair[1], gain), Mul(pair[2], gain)>>

FinitePair(pair) == IsFinite(pair[1]) /\ IsFinite(pair[2])

C11_ResetClearsHistory ==
    event = "reset" =>
        \A b \in 1..NumBands :
            /\ HistoryIsZero(eq.non_interleave_bands[b])
            /\ \A k \in 1..eq.interleave_bands[b].interleaves :
                   HistoryIsZero(eq.interleave_bands[b].biquads[k])

\* C12: every step of the sample loop that calls set_interleave, set_type,
\* update, process_sample or increment_index on the shared EQ, and every step
\* that changes the EQ, is made by the one holder of the EQ's mutex, from the
\* first such call of an iteration to the last.
C12_CallsUnderLock ==
    [][(eq' # eq \/ pc \in {"locked", "set", "updated"})
           => (mutex = "audio" /\ mutex' = "audio")]_vars

\* all the calls of an interleaved iteration with oversampling made, the mutex
\* still held
C12_Witness ==
    /\ pc = "filtered"
    /\ mutex = "audio"
    /\ io.interleave >= 2
    /\ Len(log) = 2 * NumBands
    /\ eq # EQ_default

\* C13: the EQ's mutex is free whenever the sample loop asks for it, and it is
\* released again before the next iteration starts, so the loop never waits.
C13_LockFreeWhenRequested ==
    pc \in {"idle", "read"} => mutex = "free"

\* the second iteration about to lock, the first one's guard dropped
C13_Witness ==
    /\ pc = "read"
    /\ nframes = 1
    /\ mutex = "free"
    /\ eq # EQ_default

\* Channel c of the Biquad is as one process_sample from zero history leaves it:
\* the last call's input x0 and output y0 = (b0/a0)*x0 in [0], zeros in [1]
AfterFirstSample(c) ==
    /\ call.op = "process_sample"
    /\ bq.input_history[0][c] = call.args[c + 1]
    /\ bq.input_history[1][c] = Zero
    /\ bq.output_history[0][c] = call.out[c + 1]
    /\ bq.output_history[1][c] = Zero
    /\ call.out[c + 1] = Mul(Div(bq.coeffs.b0, bq.coeffs.a0), call.args[c + 1])

\* C14: a Biquad with zero history on a channel answers input x0 with
\* y0 = (b0/a0)*x0 on that channel, and the input 0 that follows with
\* (b1*x0 - a1*y0)/a0.  As in C3 the coefficients are finite with a0 not 0 and
\* the equality is that of exact arithmetic.
C14_FirstTwoTaps ==
    [][ (target = "Biquad" /\ call'.op = "process_sample" /\ RegularCoeffs(bq.coeffs))
            => \A c \in {LEFT, RIGHT} :
                 /\ (\A i \in 0..1 : /\ bq.input_history[i][c] = Zero
                                     /\ bq.output_history[i][c] = Zero)
                        => call'.out[c + 1] =
                               Mul(Div(bq.coeffs.b0, bq.coeffs.a0), call'.args[c + 1])
                 /\ (AfterFirstSample(c) /\ call'.args[c + 1] = Zero)
                        => call'.out[c + 1] =
                               Div(Sub(Mul(bq.coeffs.b1, call.args[c + 1]),
                                       Mul(bq.coeffs.a1, call.out[c + 1])),
                                   bq.coeffs.a0) ]_vars

\* C14 happens: x0 = 1 then 0 went through the left channel of a filter with b1
\* and a1 not 0, and the second output is not 0
C14_Witness ==
    /\ target = "Biquad"
    /\ call.op = "process_sample"
    /\ RegularCoeffs(bq.coeffs)
    /\ bq.coeffs.b1 # Zero /\ bq.coeffs.a1 # Zero
    /\ bq.input_history[0][LEFT] = Zero
    /\ bq.input_history[1][LEFT] = One
    /\ bq.output_history[1][LEFT] = Div(bq.coeffs.b0, bq.coeffs.a0)
    /\ bq.output_history[0][LEFT] = call.out[1]
    /\ call.out[1] =
           Div(Sub(bq.coeffs.b1, Mul(bq.coeffs.a1, bq.output_history[1][LEFT])), bq.coeffs.a0)
    /\ call.out[1] # Zero

\* p = <<sample_rate, center_freq, gain_db, q_factor>> lies in the solver's
\* operating range: Q > 0, sample rate > 0, 0 < centre frequency < Nyquist
ValidParams(p) ==
    /\ Gt(p[4], Zero)
    /\ Gt(p[1], Zero)
    /\ Gt(p[2], Zero)
    /\ Gt(Div(p[1], Two), p[2])

\* The Biquad's coefficients are those of its type and stored parameters
FreshlySolved ==
    /\ target = "BiquadCoefficients"
    /\ call.changed
    /\ bq.coeffs = SolvedFor(bq.biquad_type, StoredParams(bq))

DcGain(c) == Div(Add(Add(c.b0, c.b1), c.b2), Add(Add(c.a0, c.a1), c.a2))

\* The Biquad is of type t and freshly solved for valid parameters with gain 0 dB
SolvedFlat(t) ==
    /\ FreshlySolved
    /\ bq.biquad_type = t
    /\ ValidParams(StoredParams(bq))
    /\ bq.gain_db = Zero

\* C16 as stated: with gain 0 dB and valid parameters the HighPass, the BandPass
\* and the Notch coefficients each have (b0 + b1 + b2) / (a0 + a1 + a2) = 1.
C16_UnityAtDcAllThree ==
    \A t \in {"HighPass", "BandPass", "Notch"} :
        SolvedFlat(t) => DcGain(bq.coeffs) = One

\* C16: with gain 0 dB and valid parameters the Notch coefficients have
\* (b0 + b1 + b2) / (a0 + a1 + a2) = 1, and the HighPass and the BandPass
\* coefficients have b0 + b1 + b2 = 0, a response of 0 at DC.
C16_DcGain ==
    /\ SolvedFlat("Notch") => DcGain(bq.coeffs) = One
    /\ \A t \in {"HighPass", "BandPass"} :
           SolvedFlat(t) => /\ Add(Add(bq.coeffs.b0, bq.coeffs.b1), bq.coeffs.b2) = Zero
                            /\ DcGain(bq.coeffs) = Zero

\* C16 happens: a Notch above a quarter of the sample rate was solved by update,
\* its b1 = a1 is not 0 and its response at DC is 1
C16_Witness ==
    /\ SolvedFlat("Notch")
    /\ call.op = "update"
    /\ bq.center_freq = F(14000)
    /\ bq.coeffs.b1 # Zero
    /\ bq.coeffs.a0 # bq.coeffs.b0
    /\ DcGain(bq.coeffs) = One

\* C17: InterleavedBiquad.process_sample works on the active slot alone: its
\* output and the slot's new history are those of Biquad::process_sample on that
\* slot, and every other slot, the active index and the number of slots are as
\* before the call.
C17_OnlyActiveSlot ==
    [][ (target = "InterleavedBiquad" /\ call'.op = "process_sample")
            => /\ ib'.interleaves = ib.interleaves
               /\ ib'.current_index = ib.current_index
               /\ DOMAIN ib'.biquads = DOMAIN ib.biquads
               /\ \A k \in DOMAIN ib.biquads :
                      k # ib.current_index + 1 => ib'.biquads[k] = ib.biquads[k]
               /\ LET res == Biquad_process_sample(ActiveSlot(ib),
                                                   call'.args[1], call'.args[2])
                  IN  /\ call'.out = res.out
                      /\ ActiveSlot(ib') = res.self ]_vars

\* C17 happens: the second slot has just filtered a sample while the first slot
\* holds the history of another one
C17_Witness ==
    /\ target = "InterleavedBiquad"
    /\ call.op = "process_sample"
    /\ call.args # <<Zero, Zero>>
    /\ ib.interleaves >= 2
    /\ ib.current_index = 1
    /\ ~HistoryIsZero(ib.biquads[1])
    /\ ib.biquads[2].input_history[0] = [c \in {LEFT, RIGHT} |-> call.args[c + 1]]
    /\ ib.biquads[1].input_history # ib.biquads[2].input_history

\* What one channel can hold before a call: its input and its two histories
OtherChannels ==
    { [in |-> Zero,  x |-> <<Zero, Zero>>,   y |-> <<Zero, Zero>>],
      [in |-> F(3),  x |-> <<One, F(-2)>>,   y |-> <<F(5), One>>],
      [in |-> One,   x |-> <<F(-2), F(-2)>>, y |-> <<Zero, F(3)>>] }

\* The Biquad with channel c's histories replaced by those of o
WithChannel(self, c, o) ==
    [self EXCEPT
       !.input_history  = [i \in 0..1 |-> [self.input_history[i] EXCEPT ![c] = o.x[i + 1]]],
       !.output_history = [i \in 0..1 |-> [self.output_history[i] EXCEPT ![c] = o.y[i + 1]]]]

\* The input pair with channel c's sample replaced by that of o
WithInput(in, c, o) == [in EXCEPT ![c + 1] = o.in]

\* C18: in process_sample the channels do not interfere and share the
\* coefficients: whatever input and history the other channel holds instead, a
\* channel's output and its history after the call are the same; the call
\* leaves the coefficients alone, and two channels with the same input and
\* history give the same output.
C18_ChannelsIndependent ==
    [][ (target = "Biquad" /\ call'.op = "process_sample")
            => /\ bq'.coeffs = bq.coeffs
               /\ \A c \in {LEFT, RIGHT} :
                    \A o \in OtherChannels :
                      LET alt == Biquad_process_sample(
                                     WithChannel(bq, 1 - c, o),
                                     WithInput(call'.args, 1 - c, o)[1],
                                     WithInput(call'.args, 1 - c, o)[2])
                      IN  /\ alt.out[c + 1] = call'.out[c + 1]
                          /\ \A i \in 0..1 :
                               /\ alt.self.input_history[i][c] = bq'.input_history[i][c]
                               /\ alt.self.output_history[i][c] = bq'.output_history[i][c]
               /\ (/\ call'.args[1] = call'.args[2]
                   /\ \A i \in 0..1 :
                        /\ bq.input_history[i][LEFT] = bq.input_history[i][RIGHT]
                        /\ bq.output_history[i][LEFT] = bq.output_history[i][RIGHT])
                      => call'.out[1] = call'.out[2] ]_vars

\* C18 happens: a filter with finite coefficients, b1 not 0 and different
\* histories on the two channels has filtered a pair, and the outputs differ
C18_Witness ==
    /\ target = "Biquad"
    /\ call.op = "process_sample"
    /\ RegularCoeffs(bq.coeffs)
    /\ bq.coeffs.b1 # Zero
    /\ bq.input_history[1][LEFT] # bq.input_history[1][RIGHT]
    /\ bq.output_history[1][LEFT] # bq.output_history[1][RIGHT]
    /\ bq.input_history[1][LEFT] # Zero /\ bq.input_history[1][RIGHT] # Zero
    /\ call.out[1] # call.out[2]

\* The passes of band b in the current iteration, in the order they ran
PassesOf(b) == SelectSeq(log, LAMBDA e : e.band = b)

\* Every band ran oversampling + 1 passes, numbered 0..oversampling
PassesPerBand ==
    \A b \in 1..NumBands :
        /\ Len(PassesOf(b)) = io.oversampling + 1
        /\ \A i \in 1..Len(PassesOf(b)) : PassesOf(b)[i].pass = i - 1

\* Every pass after a band's first took the output that band had just produced
PassesChained ==
    \A k \in 2..Len(log) :
        log[k].band = log[k - 1].band => log[k].in = log[k - 1].out

\* A band's first pass took the output of the last pass of the band before it
LastPassHandedOn ==
    \A k \in 2..Len(log) :
        log[k].band # log[k - 1].band
            => /\ log[k - 1].pass = io.oversampling
               /\ log[k].in = log[k - 1].out

\* C19: with oversampling k every band runs exactly k + 1 passes for an incoming
\* sample, the first on the band's input and each further one on the band's own
\* output of the pass before, and the next band is handed the output of the
\* last pass only.
C19_PassesPerSample ==
    pc = "filtered" => (PassesPerBand /\ PassesChained /\ LastPassHandedOn)

\* The process_sample calls of the current iteration on the Biquad in slot s of
\* band b (the plain bank's Biquad is slot 0)
CallsOn(b, s) == Cardinality({k \in 1..Len(log) : log[k].band = b /\ log[k].slot = s})

\* The slot indices of an InterleavedBiquad of the greatest depth (lib.rs:233-234)
Slots == 0..(MaxInterleave - 1)

\* C20 as stated: in an iteration of the sample loop every Biquad that filters
\* the sample has process_sample called on it exactly once, for every
\* oversampling setting.
C20_OncePerSample ==
    pc = "filtered" =>
        \A b \in 1..NumBands : \A s \in Slots : CallsOn(b, s) \in {0, 1}

\* C20: in an iteration of the sample loop with oversampling k the Biquad of each
\* band of the plain bank has process_sample called on it exactly k + 1 times;
\* in the interleaved bank the k + 1 calls of a band go to k + 1 different
\* slots, once each, when the depth is at least k + 1.
C20_CallsPerSample ==
    pc = "filtered" =>
        \A b \in 1..NumBands :
            IF io.interleave >= 2
            THEN /\ Len(PassesOf(b)) = io.oversampling + 1
                 /\ io.oversampling + 1 <= eq.interleave_bands[b].interleaves
                        => \A s \in Slots : CallsOn(b, s) \in {0, 1}
            ELSE CallsOn(b, 0) = io.oversampling + 1

\* C20 happens: with oversampling 1 the plain bank's first Biquad has been called
\* twice for one sample, the second time on its own output
C20_Witness ==
    /\ pc = "filtered"
    /\ io.oversampling = 1
    /\ ~(io.interleave >= 2)
    /\ CallsOn(1, 0) = 2
    /\ log[2].in = log[1].out
    /\ eq.non_interleave_bands[1].input_history[0][LEFT] = log[2].in[1]
    /\ eq.non_interleave_bands[1].input_history[1][LEFT] = log[1].in[1]
    /\ log[1].in[1] # Zero

\* The step is a pass of the interleaved bank
InterleavedPassStep ==
    /\ target = "Interleaf"
    /\ pc = "updated"
    /\ io.interleave >= 2
    /\ Len(log') = Len(log) + 1

SelectedBank == IF io.interleave >= 2 THEN "interleave_bands" ELSE "non_interleave_bands"

\* The parameters band b of the selected bank has stored, in every slot
StoredInBand(b) ==
    IF io.interleave >= 2
    THEN {StoredParams(eq.interleave_bands[b].biquads[k]) :
              k \in 1..eq.interleave_bands[b].interleaves}
    ELSE {StoredParams(eq.non_interleave_bands[b])}

\* C22: in every iteration of the sample loop update is called on the five
\* bands of the bank that filters the sample, in the order 0..4, each with the
\* sample rate and that band's frequency, gain and resonance as they stand, and
\* the five calls are over before the first process_sample of the iteration.
C22_UpdatesBeforePasses ==
    target = "Interleaf" =>
        /\ Len(io.updates) <= NumBands
        /\ \A k \in 1..Len(io.updates) :
               /\ io.updates[k].band = k
               /\ io.updates[k].bank = SelectedBank
               /\ io.updates[k].args =
                      <<io.sr, io.bands[k].freq, io.bands[k].gain, io.bands[k].res>>
               /\ (pc = "set" \/ log = <<>>) => StoredInBand(k) = {io.updates[k].args}
        /\ log # <<>> => Len(io.updates) = NumBands
        /\ pc \in {"updated", "filtered", "mixed"} => Len(io.updates) = NumBands

\* C22 happens: in the second iteration the five bands of the interleaved bank
\* have been updated, not all with the same arguments, and none has filtered
\* yet
C22_Witness ==
    /\ target = "Interleaf"
    /\ pc = "updated"
    /\ log = <<>>
    /\ nframes = 1
    /\ io.interleave >= 2
    /\ Len(io.updates) = NumBands
    /\ Cardinality({io.updates[k].args : k \in 1..NumBands}) >= 2
    /\ \A b \in 1..NumBands : StoredInBand(b) = {io.updates[b].args}

\* C23: Biquad::update leaves the input and the output history of both channels
\* as they are, whether it recomputes the coefficients or not, and a call that
\* changes the history of the Biquad is a process_sample.
C23_UpdateKeepsHistory ==
    [][ target = "Biquad"
            => /\ call'.op = "update"
                   => /\ bq'.input_history = bq.input_history
                      /\ bq'.output_history = bq.output_history
               /\ (\/ bq'.input_history # bq.input_history
                   \/ bq'.output_history # bq.output_history)
                   => call'.op = "process_sample" ]_vars

\* C23 happens: an update has recomputed the coefficients of a Biquad that holds
\* history in both channels
C23_Witness ==
    /\ target = "Biquad"
    /\ call.op = "update" /\ call.changed
    /\ bq.coeffs = SolvedFor(bq.biquad_type, StoredParams(bq))
    /\ \A c \in {LEFT, RIGHT} :
           bq.input_history[0][c] # Zero /\ bq.output_history[0][c] # Zero

\* The history and the coefficients of a Biquad
Kept(self) ==
    [input_history |-> self.input_history, output_history |-> self.output_history,
     coeffs |-> self.coeffs]

\* The step belongs to an iteration of the sample loop that filters with the
\* interleaved bank (interleaved = TRUE) or with the plain one
StepOfIteration(interleaved) ==
    /\ target = "Interleaf"
    /\ \/ pc = "locked" /\ pc' = "set" /\ (io'.interleave >= 2) = interleaved
       \/ pc \in {"set", "updated"} /\ (io.interleave >= 2) = interleaved

FlatGain ==
    /\ target = "GainBiquad"
    /\ bq.biquad_type \in GainTypes
    /\ bq.gain_db = Zero
    /\ bq.coeffs = SolvedFor(bq.biquad_type, StoredParams(bq))

\* Every stored sample of the Biquad is finite
HistoryIsFinite(self) ==
    \A i \in 0..1 : \A c \in {LEFT, RIGHT} :
        IsFinite(self.input_history[i][c]) /\ IsFinite(self.output_history[i][c])

\* b0 = a0, b1 = a1, b2 = a2
NumeratorIsDenominator(c) == c.b0 = c.a0 /\ c.b1 = c.a1 /\ c.b2 = c.a2

\* C26 as stated: a Peak, LowShelf or HighShelf Biquad with 0 dB has b0 = a0,
\* b1 = a1, b2 = a2, and from Biquad::new on every process_sample returns its
\* input pair, whatever the inputs.
C26_TransparentAlways ==
    FlatGain => /\ NumeratorIsDenominator(bq.coeffs)
                /\ call.op = "process_sample" => call.out = call.args

\* C26: a Peak, LowShelf or HighShelf Biquad with 0 dB has b0 = a0, b1 = a1,
\* b2 = a2; when these are finite with a0 not 0 then from Biquad::new on, as
\* long as every input was finite, every process_sample returns its input pair
\* and the output history equals the input history.
C26_TransparentOnFinite ==
    FlatGain => /\ NumeratorIsDenominator(bq.coeffs)
                /\ (RegularCoeffs(bq.coeffs) /\ HistoryIsFinite(bq))
                       => /\ bq.output_history = bq.input_history
                          /\ call.op = "process_sample" => call.out = call.args

\* C26 happens: a 0 dB low shelf with b1 = a1 not 0 has been fed the greatest
\* number of samples, the last two different and not 0, and returned the last
C26_Witness ==
    /\ FlatGain
    /\ bq.biquad_type = "LowShelf"
    /\ RegularCoeffs(bq.coeffs)
    /\ bq.coeffs.b1 # Zero
    /\ ncalls = MaxCalls
    /\ call.op = "process_sample"
    /\ call.out = call.args
    /\ bq.input_history[0][LEFT] # Zero
    /\ bq.input_history[1][LEFT] # Zero
    /\ bq.input_history[0][LEFT] # bq.input_history[1][LEFT]

====
